---------------------------- MODULE Spec2Model ----------------------------
(***************************************************************************)
(* A model of connect_a_graph.py: the bit-encoded board of an H x W grid,  *)
(* Move, the feasibility check IsBoardPossible, the backtracking solver    *)
(* _Solve / Solve, the canonicalizer DeduplicateBoard and the enumerator   *)
(* GetAllPossibleBoards.                                                   *)
(*                                                                         *)
(* Boards and positions are Python integers, modelled as naturals; the bit *)
(* operators of the source are defined below on naturals.  The Helper      *)
(* object (height, width, masks) is the state after construction; every    *)
(* specification draws the constructor arguments and the arguments of the  *)
(* call it studies in its initial states.                                  *)
(***************************************************************************)
EXTENDS Integers, Sequences, FiniteSets

VARIABLES
    height, width,      \* Helper.height, Helper.width
    rows, cols,         \* Helper.masks.rows, Helper.masks.cols
    pc,                 \* where the studied call stands
    board, position,    \* arguments of the studied call
    direction,          \* argument of Move
    row, col,           \* arguments of EncodePosition
    num,                \* argument of GetAllPossibleBoards
    result, error,      \* value returned / exception raised by the call
    arg, retval,        \* _Solve: arguments of the pending call, returned value
    stack, path,        \* _Solve: frames of the callers, the shared path list
    indices, yielded,   \* GetAllPossibleBoards: combination in hand, boards yielded
    visited, visited_bits, pops  \* IsBoardPossible: BFS queue, bits, pops made

helperVars == <<height, width, rows, cols>>
inputVars  == <<board, position, direction, row, col, num>>
callVars   == <<result, error>>
solveVars  == <<arg, retval, stack, path>>
enumVars   == <<indices, yielded>>
bfsVars    == <<visited, visited_bits, pops>>
vars == <<height, width, rows, cols, pc, board, position, direction, row, col,
          num, result, error, arg, retval, stack, path, indices, yielded,
          visited, visited_bits, pops>>

-----------------------------------------------------------------------------
(* Bounds of the model *)

\* grids of at most MaxArea cells (height * width <= MaxArea)
MaxArea == 9

-----------------------------------------------------------------------------
(* Python integer operators on naturals *)

RECURSIVE BitLength(_)
BitLength(n) == IF n = 0 THEN 0 ELSE 1 + BitLength(n \div 2)

RECURSIVE And(_, _)
And(a, b) ==
    IF a = 0 \/ b = 0 THEN 0
    ELSE (a % 2) * (b % 2) + 2 * And(a \div 2, b \div 2)

Or(a, b) == a + b - And(a, b)

\* a & ~b
AndNot(a, b) == a - And(a, b)

ShiftLeft(a, k) == a * (2 ^ k)

ShiftRight(a, k) == a \div (2 ^ k)

Abs(x) == IF x < 0 THEN 0 - x ELSE x

\* Python's None, a value no position equals
None == -1

-----------------------------------------------------------------------------
(* class Direction *)

UP == 0
DOWN == 1
LEFT == 2
RIGHT == 3

-----------------------------------------------------------------------------
(* class Masks *)

RECURSIVE OneRow(_)
OneRow(w) == IF w = 0 THEN 0 ELSE Or(ShiftLeft(OneRow(w - 1), 1), 1)

\* mutant: the column seed covers the first row only
OneCol_FirstRowOnly(h, w) == IF h = 0 THEN 0 ELSE 1

RECURSIVE OneCol(_, _)
OneCol(h, w) == IF h = 0 THEN 0 ELSE Or(ShiftLeft(OneCol(h - 1, w), w), 1)

MasksRows(h, w) == [i \in 1..h |-> ShiftLeft(OneRow(w), (i - 1) * w)]

MasksCols(h, w) == [j \in 1..w |-> ShiftLeft(OneCol(h, w), j - 1)]

-----------------------------------------------------------------------------
(* class Helper: pure methods *)

EncodeShift(r, c) == width * r + c

EncodePosition(r, c) == ShiftLeft(1, EncodeShift(r, c))

DecodePosition(p) ==
    LET shift == BitLength(p) - 1
    IN  <<shift \div width, shift % width>>

\* mutant: RIGHT without the test of the last column
GetPositionAfterMove_NoRightEdge(p, d) ==
    LET offset == BitLength(p) - 1
    IN  IF d = UP
        THEN IF offset >= width THEN ShiftRight(p, width) ELSE None
        ELSE IF d = DOWN
        THEN IF offset < width * (height - 1) THEN ShiftLeft(p, width) ELSE None
        ELSE IF d = LEFT
        THEN IF offset % width > 0 THEN ShiftRight(p, 1) ELSE None
        ELSE ShiftLeft(p, 1)

GetPositionAfterMove(p, d) ==
    LET offset == BitLength(p) - 1
    IN  IF d = UP
        THEN IF offset >= width THEN ShiftRight(p, width) ELSE None
        ELSE IF d = DOWN
        THEN IF offset < width * (height - 1) THEN ShiftLeft(p, width) ELSE None
        ELSE IF d = LEFT
        THEN IF offset % width > 0 THEN ShiftRight(p, 1) ELSE None
        ELSE IF offset % width < width - 1 THEN ShiftLeft(p, 1) ELSE None

Move(b, p, d) ==
    LET new_position == GetPositionAfterMove(p, d)
    IN  IF new_position = None THEN None
        ELSE IF And(new_position, b) = 0 THEN None
        ELSE new_position

\* mutant: only the bits of the first row are counted
Size_FirstRow(b) == Cardinality({k \in 0..(width - 1) : (b \div (2 ^ k)) % 2 = 1})

RECURSIVE Size(_)
Size(b) == IF b = 0 THEN 0 ELSE (b % 2) + Size(b \div 2)

\* The double loop of IsBoardPossible over the cells k = row * width + col,
\* from cell k on: the parity counts and the first set cell found.
RECURSIVE ScanBoard(_, _, _)
ScanBoard(b, k, s) ==
    IF k >= height * width THEN s
    ELSE LET r == k \div width
             c == k % width
             p == EncodePosition(r, c)
         IN  IF And(b, p) > 0
             THEN ScanBoard(b, k + 1,
                    [num_cells |-> [s.num_cells EXCEPT ![((r + c) % 2) + 1] = @ + 1],
                     visited   |-> IF s.visited = <<>> THEN <<p>> ELSE s.visited])
             ELSE ScanBoard(b, k + 1, s)

ScanStart == [num_cells |-> <<0, 0>>, visited |-> <<>>]

\* the nested function visit(position, direction)
Visit(b, q, vbits, p, d) ==
    LET new_position == Move(b, p, d)
    IN  IF new_position # None /\ new_position # 0 /\ And(vbits, new_position) = 0
        THEN Append(q, new_position)
        ELSE q

\* mutant: the visit to the left is left out
BfsPop_NoLeft(b, st) ==
    LET p  == Head(st.visited)
        vb == Or(st.visited_bits, p)
        q1 == Visit(b, Tail(st.visited), vb, p, UP)
        q2 == Visit(b, q1, vb, p, DOWN)
        q4 == Visit(b, q2, vb, p, RIGHT)
    IN  [visited |-> q4, visited_bits |-> vb]

\* one iteration of "while visited"
BfsPop(b, st) ==
    LET p  == Head(st.visited)
        vb == Or(st.visited_bits, p)
        q1 == Visit(b, Tail(st.visited), vb, p, UP)
        q2 == Visit(b, q1, vb, p, DOWN)
        q3 == Visit(b, q2, vb, p, LEFT)
        q4 == Visit(b, q3, vb, p, RIGHT)
    IN  [visited |-> q4, visited_bits |-> vb]

RECURSIVE BfsRun(_, _)
BfsRun(b, st) ==
    IF st.visited = <<>> THEN st.visited_bits ELSE BfsRun(b, BfsPop(b, st))

\* mutant: any difference of the parity counts rejects
ParityBalanced_Strict(s) == ~(Abs(s.num_cells[1] - s.num_cells[2]) > 0)

ParityBalanced(s) == ~(Abs(s.num_cells[1] - s.num_cells[2]) > 1)

IsBoardPossible(b) ==
    IF b = 0 THEN FALSE
    ELSE LET s == ScanBoard(b, 0, ScanStart)
         IN  IF ~ParityBalanced(s) THEN FALSE
             ELSE b = BfsRun(b, [visited |-> s.visited, visited_bits |-> 0])

RECURSIVE FirstNonEmpty(_, _, _)
FirstNonEmpty(masks, b, i) ==
    IF i > Len(masks) THEN i - 1
    ELSE IF And(masks[i], b) > 0 THEN i - 1
    ELSE FirstNonEmpty(masks, b, i + 1)

DeduplicateBoard(b) ==
    IF b = 0 THEN b
    ELSE LET first_non_empty_row == FirstNonEmpty(rows, b, 1)
             first_non_empty_col == FirstNonEmpty(cols, b, 1)
         IN  ShiftRight(b, first_non_empty_row * width + first_non_empty_col)

-----------------------------------------------------------------------------
(* Construction: Helper(height, width) *)

Dims == {d \in (1..MaxArea) \X (1..MaxArea) : d[1] * d[2] <= MaxArea}

Boards(h, w) == 0..(2 ^ (h * w) - 1)

Positions(h, w) == {2 ^ k : k \in 0..(h * w - 1)}

Construct(h, w) ==
    /\ height = h
    /\ width = w
    /\ rows = MasksRows(h, w)
    /\ cols = MasksCols(h, w)

NoCall == result = 0 /\ error = "none"

NoSolve ==
    /\ arg = [board |-> 0, position |-> 0] /\ retval = FALSE
    /\ stack = <<>> /\ path = <<>>

NoEnum == indices = <<>> /\ yielded = <<>>

NoBfs == visited = <<>> /\ visited_bits = 0 /\ pops = 0

-----------------------------------------------------------------------------
(* Solve / _Solve, one step per call entry and per return *)

InitSolve ==
    \E d \in Dims :
        /\ Construct(d[1], d[2])
        /\ pc = "call"
        /\ board \in Boards(d[1], d[2])
        /\ position \in Positions(d[1], d[2])
        /\ direction = 0 /\ row = 0 /\ col = 0 /\ num = 0
        /\ arg = [board |-> board, position |-> position]
        /\ retval = FALSE
        /\ stack = <<>> /\ path = <<>>
        /\ NoCall /\ NoEnum /\ NoBfs

SolveKeeps == UNCHANGED <<helperVars, inputVars, callVars, enumVars, bfsVars>>

\* the three early "return False" of _Solve
Rejects(b, p) ==
    \/ p = None
    \/ And(b, p) = 0
    \/ ~IsBoardPossible(b)

Solve_Reject ==
    /\ pc = "call"
    /\ Rejects(arg.board, arg.position)
    /\ pc' = "ret"
    /\ retval' = FALSE
    /\ UNCHANGED <<arg, stack, path>>
    /\ SolveKeeps

Solve_Accept ==
    /\ pc = "call"
    /\ ~Rejects(arg.board, arg.position)
    /\ Size(arg.board) = 1
    /\ path' = Append(path, arg.position)
    /\ pc' = "ret"
    /\ retval' = TRUE
    /\ UNCHANGED <<arg, stack>>
    /\ SolveKeeps

\* the board after "board &= ~position"
Unset(b, p) == AndNot(b, p)

\* mutant: LEFT tried before DOWN
DirectionOrder_Swapped == <<UP, LEFT, DOWN, RIGHT>>

\* the order of the four recursive calls joined by "or"
DirectionOrder == <<UP, DOWN, LEFT, RIGHT>>

Solve_Descend ==
    /\ pc = "call"
    /\ ~Rejects(arg.board, arg.position)
    /\ Size(arg.board) # 1
    /\ path' = Append(path, arg.position)
    /\ LET b == Unset(arg.board, arg.position)
       IN  /\ stack' = Append(stack, [board |-> b, position |-> arg.position,
                                      tried |-> 1])
           /\ arg' = [board |-> b,
                      position |-> Move(b, arg.position, DirectionOrder[1])]
    /\ pc' = "call"
    /\ UNCHANGED retval
    /\ SolveKeeps

Top == stack[Len(stack)]

Pop(s) == SubSeq(s, 1, Len(s) - 1)

Solve_ChildTrue ==
    /\ pc = "ret"
    /\ stack # <<>>
    /\ retval
    /\ stack' = Pop(stack)
    /\ UNCHANGED <<pc, retval, arg, path>>
    /\ SolveKeeps

Solve_NextDirection ==
    /\ pc = "ret"
    /\ stack # <<>>
    /\ ~retval
    /\ Top.tried < Len(DirectionOrder)
    /\ LET i == Top.tried + 1
       IN  /\ stack' = [stack EXCEPT ![Len(stack)].tried = i]
           /\ arg' = [board |-> Top.board,
                      position |-> Move(Top.board, Top.position, DirectionOrder[i])]
    /\ pc' = "call"
    /\ UNCHANGED <<retval, path>>
    /\ SolveKeeps

\* mutant: the undo is forgotten
PathPop_Forgot(p) == p

\* what "path.pop()" leaves
PathPop(p) == Pop(p)

Solve_Backtrack ==
    /\ pc = "ret"
    /\ stack # <<>>
    /\ ~retval
    /\ Top.tried = Len(DirectionOrder)
    /\ path' = PathPop(path)
    /\ stack' = Pop(stack)
    /\ UNCHANGED <<pc, retval, arg>>
    /\ SolveKeeps

Solve_Return ==
    /\ pc = "ret"
    /\ stack = <<>>
    /\ pc' = "done"
    /\ UNCHANGED <<retval, arg, stack, path>>
    /\ SolveKeeps

Init == InitSolve

Next ==
    \/ Solve_Reject
    \/ Solve_Accept
    \/ Solve_Descend
    \/ Solve_ChildTrue
    \/ Solve_NextDirection
    \/ Solve_Backtrack
    \/ Solve_Return

Spec == Init /\ [][Next]_vars

-----------------------------------------------------------------------------
(* Move(board, position, direction), applied to drawn arguments *)

Directions == {UP, DOWN, LEFT, RIGHT}

InitMove ==
    \E d \in Dims :
        /\ Construct(d[1], d[2])
        /\ pc = "call"
        /\ board \in Boards(d[1], d[2])
        /\ position \in Positions(d[1], d[2])
        /\ direction \in Directions
        /\ row = 0 /\ col = 0 /\ num = 0
        /\ NoCall /\ NoSolve /\ NoEnum /\ NoBfs

Call_Move ==
    /\ pc = "call"
    /\ result' = Move(board, position, direction)
    /\ pc' = "done"
    /\ UNCHANGED <<helperVars, inputVars, error, solveVars, enumVars, bfsVars>>

NextMove == Call_Move

SpecMove == InitMove /\ [][NextMove]_vars

-----------------------------------------------------------------------------
(* EncodePosition(row, col), applied to drawn arguments *)

\* coordinates are drawn up to CoordSlack outside the grid on either side
CoordSlack == 1

InitEncode ==
    \E d \in Dims :
        /\ Construct(d[1], d[2])
        /\ pc = "call"
        /\ row \in (0 - CoordSlack)..(d[1] - 1 + CoordSlack)
        /\ col \in (0 - CoordSlack)..(d[2] - 1 + CoordSlack)
        /\ board = 0 /\ position = 0 /\ direction = 0 /\ num = 0
        /\ NoCall /\ NoSolve /\ NoEnum /\ NoBfs

\* "1 << n" raises ValueError (negative shift count) when n < 0
ShiftRaises(n) == n < 0

Call_EncodePosition_Raises ==
    /\ pc = "call"
    /\ ShiftRaises(EncodeShift(row, col))
    /\ error' = "ValueError"
    /\ pc' = "done"
    /\ UNCHANGED <<helperVars, inputVars, result, solveVars, enumVars, bfsVars>>

Call_EncodePosition_Returns ==
    /\ pc = "call"
    /\ ~ShiftRaises(EncodeShift(row, col))
    /\ result' = EncodePosition(row, col)
    /\ pc' = "done"
    /\ UNCHANGED <<helperVars, inputVars, error, solveVars, enumVars, bfsVars>>

NextEncode ==
    \/ Call_EncodePosition_Raises
    \/ Call_EncodePosition_Returns

SpecEncode == InitEncode /\ [][NextEncode]_vars

-----------------------------------------------------------------------------
(* IsBoardPossible(board) and DeduplicateBoard(board), applied to drawn boards *)

InitBoard ==
    \E d \in Dims :
        /\ Construct(d[1], d[2])
        /\ pc = "call"
        /\ board \in Boards(d[1], d[2])
        /\ position = 0 /\ direction = 0 /\ row = 0 /\ col = 0 /\ num = 0
        /\ NoCall /\ NoSolve /\ NoEnum /\ NoBfs

Call_IsBoardPossible ==
    /\ pc = "call"
    /\ result' = IsBoardPossible(board)
    /\ pc' = "done"
    /\ UNCHANGED <<helperVars, inputVars, error, solveVars, enumVars, bfsVars>>

NextPossible == Call_IsBoardPossible

SpecPossible == InitBoard /\ [][NextPossible]_vars

Call_DeduplicateBoard ==
    /\ pc = "call"
    /\ result' = DeduplicateBoard(board)
    /\ pc' = "done"
    /\ UNCHANGED <<helperVars, inputVars, error, solveVars, enumVars, bfsVars>>

NextDedup == Call_DeduplicateBoard

SpecDedup == InitBoard /\ [][NextDedup]_vars

-----------------------------------------------------------------------------
(* GetAllPossibleBoards(num): a generator, one step per board yielded.     *)
(* itertools.combinations(range(n), r) keeps the r indices of the          *)
(* combination in hand, yields them, and advances the rightmost index that *)
(* is not yet at its last value, resetting those to its right.             *)

InitEnum ==
    \E d \in Dims :
        /\ Construct(d[1], d[2])
        /\ pc = "call"
        /\ num \in 0..(d[1] * d[2] + 1)
        /\ board = 0 /\ position = 0 /\ direction = 0 /\ row = 0 /\ col = 0
        /\ NoCall /\ NoSolve /\ NoEnum /\ NoBfs

\* len(list(range(self.width * self.height)))
PoolSize == width * height

\* mutant: the bit is assigned, not or-ed in
BoardOf_Assign(positions) ==
    IF positions = <<>> THEN 0 ELSE ShiftLeft(1, positions[Len(positions)])

\* the for loop "board |= (1 << pos)" over the positions of one combination
RECURSIVE BoardOf(_)
BoardOf(positions) ==
    IF positions = <<>> THEN 0
    ELSE Or(BoardOf(SubSeq(positions, 1, Len(positions) - 1)),
            ShiftLeft(1, positions[Len(positions)]))

\* the indices (1-based places, 0-based values) that can still advance
Movable == {i \in 1..num : indices[i] # (i - 1) + PoolSize - num}

\* the combination after the one in hand
Advance ==
    LET i == CHOOSE k \in Movable : \A m \in Movable : m <= k
    IN  [j \in 1..num |-> IF j < i THEN indices[j] ELSE indices[i] + 1 + (j - i)]

Enum_Nothing ==
    /\ pc = "call"
    /\ num > PoolSize
    /\ pc' = "done"
    /\ UNCHANGED <<helperVars, inputVars, callVars, solveVars, enumVars, bfsVars>>

Enum_First ==
    /\ pc = "call"
    /\ ~(num > PoolSize)
    /\ indices' = [j \in 1..num |-> j - 1]
    /\ yielded' = Append(yielded, BoardOf(indices'))
    /\ pc' = "yield"
    /\ UNCHANGED <<helperVars, inputVars, callVars, solveVars, bfsVars>>

Enum_Next ==
    /\ pc = "yield"
    /\ Movable # {}
    /\ indices' = Advance
    /\ yielded' = Append(yielded, BoardOf(indices'))
    /\ UNCHANGED pc
    /\ UNCHANGED <<helperVars, inputVars, callVars, solveVars, bfsVars>>

Enum_Exhausted ==
    /\ pc = "yield"
    /\ Movable = {}
    /\ pc' = "done"
    /\ UNCHANGED <<helperVars, inputVars, callVars, solveVars, enumVars, bfsVars>>

NextEnum ==
    \/ Enum_Nothing
    \/ Enum_First
    \/ Enum_Next
    \/ Enum_Exhausted

SpecEnum == InitEnum /\ [][NextEnum]_vars

-----------------------------------------------------------------------------
(* IsBoardPossible(board), one step per iteration of "while visited";      *)
(* pops counts the iterations.                                             *)

\* grids of at most BfsMaxSide rows and columns
BfsMaxSide == 4

\* boards with at most BfsMaxRemoved cells removed from the full board
BfsMaxRemoved == 2

FullBoard(h, w) == 2 ^ (h * w) - 1

RECURSIVE SumOf(_)
SumOf(S) == IF S = {} THEN 0 ELSE LET x == CHOOSE y \in S : TRUE
                                  IN  x + SumOf(S \ {x})

InitBfs ==
    \E h \in 1..BfsMaxSide, w \in 1..BfsMaxSide :
        /\ Construct(h, w)
        /\ pc = "call"
        /\ \E R \in SUBSET Positions(h, w) :
              /\ Cardinality(R) <= BfsMaxRemoved
              /\ board = FullBoard(h, w) - SumOf(R)
        /\ position = 0 /\ direction = 0 /\ row = 0 /\ col = 0 /\ num = 0
        /\ NoCall /\ NoSolve /\ NoEnum /\ NoBfs

BfsKeeps == UNCHANGED <<helperVars, inputVars, error, solveVars, enumVars>>

Bfs_Empty ==
    /\ pc = "call"
    /\ board = 0
    /\ result' = FALSE
    /\ pc' = "done"
    /\ UNCHANGED bfsVars
    /\ BfsKeeps

Bfs_Unbalanced ==
    /\ pc = "call"
    /\ board # 0
    /\ ~ParityBalanced(ScanBoard(board, 0, ScanStart))
    /\ result' = FALSE
    /\ pc' = "done"
    /\ UNCHANGED bfsVars
    /\ BfsKeeps

Bfs_Seed ==
    /\ pc = "call"
    /\ board # 0
    /\ ParityBalanced(ScanBoard(board, 0, ScanStart))
    /\ visited' = ScanBoard(board, 0, ScanStart).visited
    /\ visited_bits' = 0
    /\ pc' = "while"
    /\ UNCHANGED <<result, pops>>
    /\ BfsKeeps

Bfs_Pop ==
    /\ pc = "while"
    /\ visited # <<>>
    /\ LET st == BfsPop(board, [visited |-> visited, visited_bits |-> visited_bits])
       IN  /\ visited' = st.visited
           /\ visited_bits' = st.visited_bits
    /\ pops' = pops + 1
    /\ UNCHANGED <<pc, result>>
    /\ BfsKeeps

Bfs_Return ==
    /\ pc = "while"
    /\ visited = <<>>
    /\ result' = (board = visited_bits)
    /\ pc' = "done"
    /\ UNCHANGED bfsVars
    /\ BfsKeeps

NextBfs ==
    \/ Bfs_Empty
    \/ Bfs_Unbalanced
    \/ Bfs_Seed
    \/ Bfs_Pop
    \/ Bfs_Return

SpecBfs == InitBfs /\ [][NextBfs]_vars

-----------------------------------------------------------------------------
(* The grid as geometry, for stating the claims: cells are <<row, col>> *)

Grid == (0..(height - 1)) \X (0..(width - 1))

BitSet(b, k) == (b \div (2 ^ k)) % 2 = 1

Cells(b) == {x \in Grid : BitSet(b, x[1] * width + x[2])}

InGrid(b) == b < 2 ^ (height * width)

IsOneHot(p) == \E k \in 0..(height * width - 1) : p = 2 ^ k

CellOf(p) == CHOOSE x \in Grid : p = 2 ^ (x[1] * width + x[2])

Adjacent(x, y) ==
    \/ x[1] = y[1] /\ Abs(x[2] - y[2]) = 1
    \/ x[2] = y[2] /\ Abs(x[1] - y[1]) = 1

\* all Hamiltonian paths over the cell set S that start at x
RECURSIVE HamPaths(_, _)
HamPaths(S, x) ==
    IF x \notin S THEN {}
    ELSE IF S = {x} THEN {<<x>>}
    ELSE UNION {{<<x>> \o q : q \in HamPaths(S \ {x}, y)} :
                    y \in {z \in S \ {x} : Adjacent(x, z)}}

PathCells == [i \in 1..Len(path) |-> CellOf(path[i])]

StartIsSet == BitSet(board, BitLength(position) - 1)

Solved == pc = "done"

Distinct(q) == \A i, j \in 1..Len(q) : i # j => q[i] # q[j]

\* C1: a non-empty path returned by Solve(B, p), p a set cell of B, has as many
\* elements as B has set bits, starts at p, consists of distinct one-hot
\* positions of the grid, moves between grid-adjacent cells only, and covers
\* exactly the set cells of B.
Thm_C1_PathIsHamiltonian ==
    (Solved /\ StartIsSet /\ path # <<>>) =>
        /\ Len(path) = Cardinality(Cells(board))
        /\ path[1] = position
        /\ \A i \in 1..Len(path) : IsOneHot(path[i])
        /\ Distinct(path)
        /\ \A i \in 1..(Len(path) - 1) : Adjacent(PathCells[i], PathCells[i + 1])
        /\ {PathCells[i] : i \in 1..Len(path)} = Cells(board)

\* a solved board of five or more cells whose path turns (uses two columns
\* and two rows)
Wit_C1_LongPath ==
    /\ Solved /\ StartIsSet /\ Len(path) >= 5
    /\ \E i, j \in 1..Len(path) : PathCells[i][1] # PathCells[j][1]
    /\ \E i, j \in 1..Len(path) : PathCells[i][2] # PathCells[j][2]

\* C2: Solve(B, p) returns the empty path exactly when no Hamiltonian path
\* over the set cells of B starts at p, and no invocation of _Solve is pruned
\* by IsBoardPossible when its remaining board can still be covered from its
\* cell.
Thm_C2_Complete ==
    /\ (Solved /\ StartIsSet) =>
          (path = <<>> <=> HamPaths(Cells(board), CellOf(position)) = {})
    /\ (pc = "call" /\ arg.position # None /\ And(arg.board, arg.position) # 0
          /\ HamPaths(Cells(arg.board), CellOf(arg.position)) # {}) =>
          IsBoardPossible(arg.board)

\* the full 3 x 3 board solved from its centre
Wit_C2_CentreOfFull3x3 ==
    /\ Solved /\ height = 3 /\ width = 3
    /\ board = 2 ^ 9 - 1 /\ position = 2 ^ 4
    /\ Len(path) = 9

\* the move that leads from cell x to the adjacent cell y
DirectionFromTo(x, y) ==
    IF y[1] = x[1] - 1 THEN UP
    ELSE IF y[1] = x[1] + 1 THEN DOWN
    ELSE IF y[2] = x[2] - 1 THEN LEFT
    ELSE RIGHT

\* the moves of p come no later than those of q in the order
\* Up < Down < Left < Right, compared lexicographically
MovesLeq(p, q) ==
    \/ p = q
    \/ \E i \in 2..Len(p) :
          /\ \A j \in 1..(i - 1) : p[j] = q[j]
          /\ DirectionFromTo(p[i - 1], p[i]) < DirectionFromTo(q[i - 1], q[i])

\* C6: when a solution exists, the returned path is the Hamiltonian path
\* from p whose sequence of moves is lexicographically smallest under
\* Up < Down < Left < Right.
Thm_C6_FirstInOrder ==
    (Solved /\ StartIsSet /\ HamPaths(Cells(board), CellOf(position)) # {}) =>
        /\ PathCells \in HamPaths(Cells(board), CellOf(position))
        /\ \A q \in HamPaths(Cells(board), CellOf(position)) : MovesLeq(PathCells, q)

\* a solved board with three or more Hamiltonian paths from the start
Wit_C6_SeveralSolutions ==
    /\ Solved /\ StartIsSet /\ path # <<>>
    /\ Cardinality(HamPaths(Cells(board), CellOf(position))) >= 3

\* the cells of the invocations that are still on the call stack
Callers == [i \in 1..Len(stack) |-> stack[i].position]

Rejected == pc = "ret" /\ ~retval

PathCellSet == {PathCells[i] : i \in 1..Len(path)}

\* C9: at every invocation of _Solve the path and the board passed are
\* disjoint and together are the original board, so the board passed has one
\* cell less per level; an invocation that rejects leaves the path as it was
\* on entry (the cells of its callers), and the board its caller passes to
\* the next direction is still the original board without the path.
Thm_C9_BoardAndPathPartition ==
    /\ pc = "call" =>
          /\ InGrid(arg.board)
          /\ PathCellSet \cap Cells(arg.board) = {}
          /\ PathCellSet \cup Cells(arg.board) = Cells(board)
          /\ Distinct(path)
          /\ Cardinality(Cells(arg.board)) = Cardinality(Cells(board)) - Len(path)
          /\ path = Callers
    /\ Rejected =>
          /\ path = Callers
          /\ stack # <<>> =>
                /\ InGrid(Top.board)
                /\ PathCellSet \cap Cells(Top.board) = {}
                /\ PathCellSet \cup Cells(Top.board) = Cells(board)

\* a branch two levels deep has been rejected and its caller has moved on to
\* a later direction
Wit_C9_SiblingAfterReject ==
    /\ pc = "call" /\ Len(stack) >= 2 /\ Top.tried >= 3
    /\ arg.position # None

-----------------------------------------------------------------------------
(* Claims about the pure methods *)

Returned == pc = "done"

BitOfCell(x) == 2 ^ (x[1] * width + x[2])

\* the cell next to x in direction d, inside the grid or not
Neighbour(x, d) ==
    IF d = UP THEN <<x[1] - 1, x[2]>>
    ELSE IF d = DOWN THEN <<x[1] + 1, x[2]>>
    ELSE IF d = LEFT THEN <<x[1], x[2] - 1>>
    ELSE <<x[1], x[2] + 1>>

\* C8: Move(board, position, direction) returns the one-hot position of the
\* geometrically adjacent cell exactly when that cell is inside the grid and
\* set in board, and None otherwise; it never wraps into another row.
Thm_C8_MoveIsGeometric ==
    Returned =>
        LET y == Neighbour(CellOf(position), direction)
        IN  IF y \in Grid /\ y \in Cells(board)
            THEN result = BitOfCell(y) /\ IsOneHot(result)
            ELSE result = None

\* Right from the last column of a row whose successor bit (first cell of the
\* next row) is set in the board
Wit_C8_RightAtLastColumn ==
    /\ Returned /\ direction = RIGHT /\ width >= 2
    /\ CellOf(position)[2] = width - 1
    /\ CellOf(position)[1] < height - 1
    /\ BitSet(board, BitLength(position))
    /\ result = None

ParityCount(S, k) == Cardinality({x \in S : (x[1] + x[2]) % 2 = k})

\* the cells of S reachable from the cells of R by unit moves inside S
RECURSIVE Closure(_, _)
Closure(S, R) ==
    LET R2 == R \cup {y \in S : \E x \in R : Adjacent(x, y)}
    IN  IF R2 = R THEN R ELSE Closure(S, R2)

Connected(S) == \A x \in S : Closure(S, {x}) = S

\* C3: IsBoardPossible(B) is true exactly when B is non-empty, its two parity
\* classes differ in population by at most 1, and its set cells form one
\* connected component.
Thm_C3_PossibleIffBalancedConnected ==
    Returned =>
        (result <=>
            /\ board # 0
            /\ Abs(ParityCount(Cells(board), 0) - ParityCount(Cells(board), 1)) <= 1
            /\ Connected(Cells(board)))

\* a balanced board of four or more cells in two components is rejected
Wit_C3_DisconnectedRejected ==
    /\ Returned /\ result = FALSE
    /\ Cardinality(Cells(board)) >= 4
    /\ ParityCount(Cells(board), 0) = ParityCount(Cells(board), 1)
    /\ ~Connected(Cells(board))

RECURSIVE FromCells(_)
FromCells(S) ==
    IF S = {} THEN 0
    ELSE LET x == CHOOSE y \in S : TRUE
         IN  BitOfCell(x) + FromCells(S \ {x})

Shifted(S, dr, dc) == {<<x[1] + dr, x[2] + dc>> : x \in S}

\* the boards of the grid that are whole-row / whole-column translates of b
Translates(b) ==
    {FromCells(Shifted(Cells(b), dr, dc)) :
        dr \in {e \in (1 - height)..(height - 1) :
                   \A x \in Cells(b) : x[1] + e \in 0..(height - 1)},
        dc \in {e \in (1 - width)..(width - 1) :
                   \A x \in Cells(b) : x[2] + e \in 0..(width - 1)}}

MinRow(S) == CHOOSE r \in {x[1] : x \in S} : \A x \in S : r <= x[1]

MinCol(S) == CHOOSE c \in {x[2] : x \in S} : \A x \in S : c <= x[2]

\* C4: DeduplicateBoard maps a board to the translate whose first non-empty
\* row and column are 0 (cell (r, c) to (r - firstRow, c - firstCol), no bit
\* wrapping), is idempotent, gives every translate of the board the same key,
\* and exactly one board of a translation class is its own key.
Thm_C4_CanonicalTranslate ==
    Returned =>
        /\ board = 0 => result = 0
        /\ board # 0 =>
              /\ InGrid(result)
              /\ Cells(result) =
                    Shifted(Cells(board), 0 - MinRow(Cells(board)),
                                          0 - MinCol(Cells(board)))
        /\ DeduplicateBoard(result) = result
        /\ \A t \in Translates(board) : DeduplicateBoard(t) = result
        /\ {t \in Translates(board) : DeduplicateBoard(t) = t} = {result}

\* a shape spanning two rows and two columns, away from the first row and
\* the first column, whose leftmost cell is not in its top row
Wit_C4_ShiftedShape ==
    /\ Returned /\ board # 0 /\ result # board
    /\ MinRow(Cells(board)) >= 1 /\ MinCol(Cells(board)) >= 1
    /\ \E x \in Cells(board) : x[1] > MinRow(Cells(board)) /\ x[2] = MinCol(Cells(board))
    /\ \A x \in Cells(board) : x[1] = MinRow(Cells(board)) => x[2] > MinCol(Cells(board))

CoordinateInRange == row \in 0..(height - 1) /\ col \in 0..(width - 1)

\* C5: EncodePosition(row, col) fails whenever row is outside [0, H) or col is
\* outside [0, W), and returns the one-hot bit row * W + col otherwise; it
\* never returns a position for an out-of-range coordinate.
Cex_C5_OutOfRangeFails ==
    Returned =>
        IF CoordinateInRange
        THEN error = "none" /\ result = BitOfCell(<<row, col>>)
        ELSE error # "none"

RECURSIVE Binomial(_, _)
Binomial(n, k) ==
    IF k = 0 THEN 1
    ELSE IF k > n THEN 0
    ELSE Binomial(n - 1, k - 1) + Binomial(n - 1, k)

BitCount(b) == Cardinality({k \in 0..(BitLength(b) - 1) : BitSet(b, k)})

\* C7: for n in 0..T, T = H * W, GetAllPossibleBoards(n) yields exactly
\* C(T, n) boards, pairwise distinct, each of exactly n set bits, all below
\* bit T.
Thm_C7_AllCombinations ==
    (pc = "done" /\ num <= height * width) =>
        /\ Len(yielded) = Binomial(height * width, num)
        /\ Distinct(yielded)
        /\ \A i \in 1..Len(yielded) :
              BitCount(yielded[i]) = num /\ InGrid(yielded[i])

\* an exhausted enumeration of 3-cell boards of a 2 x 3 grid: 20 boards
Wit_C7_SixChooseThree ==
    /\ pc = "done" /\ height = 2 /\ width = 3 /\ num = 3
    /\ Len(yielded) = 20

\* the visits made per pop, one per direction
VisitsPerPop == 4

\* C10: the number of queue pops of the connectivity check is bounded by a
\* constant multiple of the number of set cells (here: one pop per cell and
\* direction, the bound of a traversal that enqueues a cell at most once per
\* neighbour).
Cex_C10_PopsLinear == pops <= VisitsPerPop * BitCount(board)

=============================================================================
